---- MODULE Spec2Model ----
(***************************************************************************)
(* Forever Home Friends (run.py): the Children, Pets and Owners worksheets *)
(* and the menu operations that keep them consistent.                      *)
(*                                                                         *)
(* A worksheet is the sequence of its rows, header first, so that an index *)
(* of the sequence is the 1-based row number gspread uses.  A cell is the  *)
(* string get_all_values() returns for it, a sequence of characters.       *)
(* Every menu operation is one action: the operator's answers and the      *)
(* outcome (success or failure) of each backend call are its inputs.       *)
(* Choice 8 (exit_app) ends the program and changes no worksheet: it is    *)
(* the behaviour that stutters from then on.                               *)
(***************************************************************************)
EXTENDS Integers, Sequences, FiniteSets, TLC

VARIABLES children_sheet, pets_sheet, owners_sheet, last

vars == <<children_sheet, pets_sheet, owners_sheet, last>>

sheets == <<children_sheet, pets_sheet, owners_sheet>>

(* Bounds of the model: add_child and add_pet assign no id above these;  *)
(* there are half as many pets as children.                             *)
MaxChildId == 2

MaxPetId == MaxChildId \div 2


(***************************************************************************)
(* Strings                                                                 *)
(***************************************************************************)
DigitChars == <<"0", "1", "2", "3", "4", "5", "6", "7", "8", "9">>

Digits == {"0", "1", "2", "3", "4", "5", "6", "7", "8", "9"}

DigitValue(c) == CASE c = "0" -> 0 [] c = "1" -> 1 [] c = "2" -> 2 [] c = "3" -> 3
                   [] c = "4" -> 4 [] c = "5" -> 5 [] c = "6" -> 6 [] c = "7" -> 7
                   [] c = "8" -> 8 [] c = "9" -> 9

(* Characters that str.isdigit() accepts and int() rejects with a         *)
(* ValueError; "sup2" stands for U+00B2, SUPERSCRIPT TWO.                 *)
DigitLikeChars == {"sup2"}

(* str.isdigit(): non-empty and every character a digit *)
isdigit(s) == Len(s) > 0 /\ \A i \in 1..Len(s) : s[i] \in Digits \cup DigitLikeChars

(* int(s) raises ValueError, for a string that str.isdigit() accepts *)
int_raises(s) == \E i \in 1..Len(s) : s[i] \in DigitLikeChars

(* int(s) for a digit string *)
RECURSIVE int(_)
int(s) == IF Len(s) = 0 THEN 0
          ELSE 10 * int(SubSeq(s, 1, Len(s) - 1)) + DigitValue(s[Len(s)])

(* the text a worksheet returns for a number written to a cell *)
RECURSIVE str(_)
str(n) == IF n < 10 THEN <<DigitChars[n + 1]>>
          ELSE str(n \div 10) \o <<DigitChars[(n % 10) + 1]>>

RECURSIVE lstrip(_)
lstrip(s) == IF Len(s) > 0 /\ Head(s) = " " THEN lstrip(Tail(s)) ELSE s

RECURSIVE rstrip(_)
rstrip(s) == IF Len(s) > 0 /\ s[Len(s)] = " "
             THEN rstrip(SubSeq(s, 1, Len(s) - 1)) ELSE s

strip(s) == rstrip(lstrip(s))

upper(c) == CASE c = "a" -> "A" [] c = "b" -> "B" [] c = "l" -> "L"
              [] c = "r" -> "R" [] c = "p" -> "P" [] c = "k" -> "K"
              [] c = "y" -> "Y" [] c = "e" -> "E" [] c = "n" -> "N"
              [] c = "x" -> "X" [] OTHER -> c

lower(c) == CASE c = "A" -> "a" [] c = "B" -> "b" [] c = "L" -> "l"
              [] c = "R" -> "r" [] c = "P" -> "p" [] c = "K" -> "k"
              [] c = "Y" -> "y" [] c = "E" -> "e" [] c = "N" -> "n"
              [] c = "X" -> "x" [] OTHER -> c

lowercase(s) == [i \in 1..Len(s) |-> lower(s[i])]

(* str.capitalize(): first character upper case, the rest lower case *)
capitalize(s) == [i \in 1..Len(s) |-> IF i = 1 THEN upper(s[i]) ELSE lower(s[i])]

(* a variant that puts the family name first *)
full_name_reversed(first, family) == family \o <<" ">> \o first

(* f"{first} {last}", lines 390, 533, 646, 707 *)
full_name(first, family) == first \o <<" ">> \o family

(***************************************************************************)
(* What the operator may type                                              *)
(***************************************************************************)
FirstNameInputs == {<<" ">>, <<"a", " ">>, <<"A", "n", "n">>}

LastNameInputs == {<<" ">>, <<"L", "e", "e">>}

ChildAgeInputs == {<<"4">>, <<"0", "1", "0">>, <<"1", "0">>}

NicknameInputs == {<<" ">>, <<"r", "e", "x">>, <<"R", "e", "x">>}

PetAgeInputs == {<<"3">>, <<"1", "3">>}

PetTypeInputs == {<<"P">>, <<"x">>, <<"p">>}

IdInputs == {str(i) : i \in 1..MaxChildId} \cup {str(i) : i \in 1..MaxPetId}
              \cup {<<"0", "1">>}

(* an input the operation never asked for *)
NotTyped == <<>>

YesNo == {"Y", "n"}

(* the answer to a question the operation never asked *)
NotAsked == "-"

(* a variant that takes every answer for a yes *)
confirm_action_deaf(answer) == TRUE

(* confirm_action(prompt): the answer in lower case is "y" *)
confirm_action(answer) == lower(answer) = "y"

(***************************************************************************)
(* Sentinels of the helper functions                                       *)
(***************************************************************************)
(* Python's None as a row or an index: a value no row and no row number has *)
None == <<>>

NoIndex == 0

ErrorIndex == -1

NoId == 0

NoResult == [row |-> None, index |-> NoIndex]

ErrorResult == [row |-> None, index |-> ErrorIndex]

(***************************************************************************)
(* Worksheets                                                              *)
(***************************************************************************)
ChildrenHeader == << <<"I", "D">>, <<"F">>, <<"L">>, <<"A">> >>

PetsHeader == << <<"I", "D">>, <<"N">>, <<"A">>, <<"T">> >>

OwnersHeader == << <<"C">>, <<"P">> >>

data_rows(all_values) == IF Len(all_values) > 1 THEN Tail(all_values) ELSE <<>>

(* a variant that leaves the worksheet as it was *)
delete_rows_undone(ws, row) == ws

(* a variant that empties the cells after the first and keeps the row *)
delete_rows_blanking(ws, row) ==
    [ws EXCEPT ![row] = [col \in 1..Len(@) |-> IF col = 1 THEN @[col] ELSE <<>>]]

(* worksheet.delete_rows(row): the rows below move up by one *)
delete_rows(ws, row) ==
    SubSeq(ws, 1, row - 1) \o SubSeq(ws, row + 1, Len(ws))

(* a variant that writes nothing *)
update_cell_lost(ws, row, col, value) == ws

(* a variant that removes the row *)
update_cell_removing(ws, row, col, value) == delete_rows(ws, row)

(* a variant that writes the value to every cell of the row *)
update_cell_whole_row(ws, row, col, value) ==
    [ws EXCEPT ![row] = [c \in 1..Len(@) |-> value]]

(* worksheet.update_cell(row, col, value) *)
update_cell(ws, row, col, value) ==
    [ws EXCEPT ![row] = [@ EXCEPT ![col] = value]]

(* a variant that inserts the row below the header *)
append_row_on_top(ws, values) == <<Head(ws), values>> \o Tail(ws)

(* worksheet.append_row(values) *)
append_row(ws, values) == Append(ws, values)

SetMax(S) == CHOOSE m \in S : \A x \in S : x <= m

(* a variant that falls back to id 1 when the scan fails *)
get_next_id_default_one(ws, ok) ==
    IF ~ok \/ data_rows(ws) = <<>> THEN 1
    ELSE SetMax({0} \cup {int(ws[i][1]) : i \in {j \in 2..Len(ws) : isdigit(ws[j][1])}}) + 1

(* a variant that returns the lowest id no row has *)
get_next_id_lowest_free(ws, ok) ==
    IF ~ok THEN NoId
    ELSE IF \E i \in 2..Len(ws) : isdigit(ws[i][1]) /\ int_raises(ws[i][1]) THEN NoId
    ELSE LET ids == {int(ws[i][1]) : i \in {j \in 2..Len(ws) : isdigit(ws[j][1])}}
         IN  CHOOSE n \in 1..(Len(ws) + 1) :
                 /\ n \notin ids
                 /\ \A k \in 1..(n - 1) : k \in ids

(* a variant that returns the largest id, not the one after it *)
get_next_id_off_by_one(ws, ok) ==
    IF ~ok THEN NoId
    ELSE IF data_rows(ws) = <<>> THEN 1
    ELSE SetMax({0} \cup {int(ws[i][1]) : i \in {j \in 2..Len(ws) : isdigit(ws[j][1])}})

(* get_next_id(worksheet); ok: get_all_values() answered.  A ValueError   *)
(* of int(row[0]) is caught by the except clause of line 79.               *)
get_next_id(ws, ok) ==
    IF ~ok THEN NoId
    ELSE IF data_rows(ws) = <<>> THEN 1
    ELSE IF \E j \in 2..Len(ws) : isdigit(ws[j][1]) /\ int_raises(ws[j][1]) THEN NoId
    ELSE SetMax({0} \cup {int(ws[i][1]) : i \in {j \in 2..Len(ws) : isdigit(ws[j][1])}}) + 1

validate_integer(input_str) == isdigit(input_str)

(* line 121: int(input_str) raises ValueError, which nothing catches *)
validate_range_raises(input_str) == isdigit(input_str) /\ int_raises(input_str)

(* validate_range(input_str, min_val, max_val), when it returns *)
validate_range(input_str, min_val, max_val) ==
    IF ~isdigit(input_str) THEN FALSE
    ELSE min_val <= int(input_str) /\ int(input_str) <= max_val

(* for index, row in enumerate(all_values): the first row, from row number *)
(* index on, whose cell in column col is value, with its number            *)
RECURSIVE first_row(_, _, _, _)
first_row(all_values, col, value, index) ==
    IF index > Len(all_values) THEN NoResult
    ELSE IF Len(all_values[index]) >= col /\ all_values[index][col] = value
    THEN [row |-> all_values[index], index |-> index]
    ELSE first_row(all_values, col, value, index + 1)

(* a variant that finds nothing when the call before was for the same id *)
find_row_by_id_once(ws, id_str, ok) ==
    IF ~isdigit(id_str) THEN NoResult
    ELSE IF ~ok THEN ErrorResult
    ELSE IF last.op = "find_row_by_id" /\ last.args = <<id_str>> THEN NoResult
    ELSE first_row(ws, 1, id_str, 1)

(* a variant that returns the last row with the id, not the first *)
find_row_by_id_last(ws, id_str, ok) ==
    IF ~isdigit(id_str) THEN NoResult
    ELSE IF ~ok THEN ErrorResult
    ELSE LET rows == {i \in 1..Len(ws) : ws[i][1] = id_str}
         IN  IF rows = {} THEN NoResult
             ELSE [row |-> ws[SetMax(rows)], index |-> SetMax(rows)]

(* a variant that returns the first data row when no row has the id *)
find_row_by_id_or_first(ws, id_str, ok) ==
    IF ~isdigit(id_str) THEN NoResult
    ELSE IF ~ok THEN ErrorResult
    ELSE LET found == first_row(ws, 1, id_str, 1)
         IN  IF found.row = None /\ Len(ws) > 1
             THEN [row |-> ws[2], index |-> 2] ELSE found

(* find_row_by_id(worksheet, id_str); ok: get_all_values() answered *)
find_row_by_id(ws, id_str, ok) ==
    IF ~isdigit(id_str) THEN NoResult
    ELSE IF ~ok THEN ErrorResult
    ELSE first_row(ws, 1, id_str, 1)

(* a variant that returns the 0-based position of the row *)
find_row_by_child_name_zero_based(ws, name, ok) ==
    IF ~ok THEN ErrorResult
    ELSE LET found == first_row(ws, 1, name, 1)
         IN  IF found.row = None THEN NoResult
             ELSE [row |-> found.row, index |-> found.index - 1]

(* a variant that never finds a row *)
find_row_by_child_name_blind(ws, name, ok) ==
    IF ~ok THEN ErrorResult ELSE NoResult

(* find_row_by_child_name(worksheet, full_name) *)
find_row_by_child_name(ws, name, ok) ==
    IF ~ok THEN ErrorResult
    ELSE first_row(ws, 1, name, 1)

(* a variant that never finds a row *)
find_row_by_pet_id_blind(ws, pet_id_str, ok) ==
    IF ~isdigit(pet_id_str) THEN NoResult
    ELSE IF ~ok THEN ErrorResult
    ELSE NoResult

(* a variant that looks for the pet id in the name column *)
find_row_by_pet_id_in_names(ws, pet_id_str, ok) ==
    IF ~isdigit(pet_id_str) THEN NoResult
    ELSE IF ~ok THEN ErrorResult
    ELSE first_row(ws, 1, pet_id_str, 1)

(* find_row_by_pet_id(worksheet, pet_id_str) *)
find_row_by_pet_id(ws, pet_id_str, ok) ==
    IF ~isdigit(pet_id_str) THEN NoResult
    ELSE IF ~ok THEN ErrorResult
    ELSE first_row(ws, 2, pet_id_str, 1)

(***************************************************************************)
(* The record of the operation that ran last: what it told the operator    *)
(* (outcome), the backend calls that failed, the operator's answers to the *)
(* confirmations and the writes sent to the backend, failed ones included; *)
(* for a link that sent a write, the child id and the pet id it was for.   *)
(***************************************************************************)
Report(op, outcome, fails, answers, writes) ==
    [op |-> op, outcome |-> outcome, fails |-> fails, answers |-> answers,
     writes |-> writes, linked |-> <<>>]

Init ==
    /\ children_sheet = <<ChildrenHeader>>
    /\ pets_sheet = <<PetsHeader>>
    /\ owners_sheet = <<OwnersHeader>>
    /\ last = Report("start", "none", {}, <<>>, <<>>)

(* a variant that empties the Owners table on the way out *)
Return_dropping_links(report) ==
    /\ last' = report
    /\ owners_sheet' = <<OwnersHeader>>
    /\ UNCHANGED <<children_sheet, pets_sheet>>

(* the operation ends without a write that took effect *)
Return(report) == last' = report /\ UNCHANGED sheets

(* a backend call answers (TRUE) or fails (FALSE) *)
Answer == BOOLEAN

SearchByChildCalls == {"child", "link", "pet"}

SearchByPetCalls == {"pet", "link", "children"}

Failed(ok, call) == IF ok THEN {} ELSE {call}

(***************************************************************************)
(* 1. Add a Child.  Backend calls: "scan" (get_all_values in get_next_id)  *)
(* and "append" (append_row).  An input the run never asks for is NotTyped.*)
(***************************************************************************)
add_child(first_in, last_in, age_in) ==
    LET first_name == capitalize(strip(first_in))
        last_name == capitalize(strip(last_in))
        age_str == strip(age_in)
        sent == << <<"append_row", Len(children_sheet) + 1>> >>
        Say(outcome, fails, writes) == Report("add_child", outcome, fails, <<>>, writes)
    IN  IF first_name = <<>>
        THEN last_in = NotTyped /\ age_in = NotTyped /\ Return(Say("empty", {}, <<>>))
        ELSE IF last_name = <<>>
        THEN age_in = NotTyped /\ Return(Say("empty", {}, <<>>))
        ELSE \* validate_input returns only an answer the validator accepts
             /\ age_str # <<>>
             /\ validate_range(age_str, 5, 18)
             /\ \E okScan \in Answer :
                LET next_id == get_next_id(children_sheet, okScan)
                    new_child_data == <<str(next_id), first_name, last_name,
                                        str(int(age_str))>>
                    scanned == Failed(okScan, "scan")
                IN  IF next_id = NoId THEN Return(Say("no_id", scanned, <<>>))
                    ELSE /\ next_id <= MaxChildId
                         /\ \E okAppend \in Answer :
                            IF okAppend
                            THEN /\ children_sheet' = append_row(children_sheet,
                                                                 new_child_data)
                                 /\ last' = Say("success", scanned, sent)
                                 /\ UNCHANGED <<pets_sheet, owners_sheet>>
                            ELSE Return(Say("error", scanned \cup {"append"}, sent))

(***************************************************************************)
(* 2. Add a Pet                                                            *)
(***************************************************************************)
add_pet(nick_in, age_in, type_in) ==
    LET nickname == capitalize(strip(nick_in))
        age_str == strip(age_in)
        pet_type_short == lowercase(strip(type_in))
        pet_type == IF pet_type_short = <<"p">> THEN <<"p", "u", "p", "p", "y">>
                    ELSE <<"k", "i", "t", "t", "y">>
        sent == << <<"append_row", Len(pets_sheet) + 1>> >>
        Say(outcome, fails, writes) == Report("add_pet", outcome, fails, <<>>, writes)
    IN  IF nickname = <<>>
        THEN age_in = NotTyped /\ type_in = NotTyped /\ Return(Say("empty", {}, <<>>))
        ELSE /\ age_str # <<>>
             /\ validate_range(age_str, 0, 12)
             /\ strip(type_in) # <<>>
             /\ pet_type_short \in {<<"p">>, <<"k">>}
             /\ \E okScan \in Answer :
                LET next_id == get_next_id(pets_sheet, okScan)
                    new_pet_data == <<str(next_id), nickname, str(int(age_str)),
                                      pet_type>>
                    scanned == Failed(okScan, "scan")
                IN  IF next_id = NoId THEN Return(Say("no_id", scanned, <<>>))
                    ELSE /\ next_id <= MaxPetId
                         /\ \E okAppend \in Answer :
                            IF okAppend
                            THEN /\ pets_sheet' = append_row(pets_sheet, new_pet_data)
                                 /\ last' = Say("success", scanned, sent)
                                 /\ UNCHANGED <<children_sheet, owners_sheet>>
                            ELSE Return(Say("error", scanned \cup {"append"}, sent))

(***************************************************************************)
(* 3. Link Child and Pet.  Backend calls:                                  *)
(*   "child" find_row_by_id(children_sheet), "pet" find_row_by_id(pets),   *)
(*   "link3" / "pet4" the two look-ups before the confirmation,            *)
(*   "link6" / "pet7" the two look-ups after it,                           *)
(*   "clear" the update_cell of the previous owner's row,                  *)
(*   "write" the update_cell or append_row of the child's row.             *)
(* Each "not found" loop ends with an id that is found or with a backend   *)
(* error: child_id_str and pet_id_str are the ids typed last.              *)
(***************************************************************************)
(* a variant that never sees a previous owner *)
reassigned_never(prev_owner_index, owner_row_index) == FALSE

(* a variant that takes the error index for "no previous owner" *)
reassigned_unless_error(prev_owner_index, owner_row_index) ==
    prev_owner_index > NoIndex /\ prev_owner_index # owner_row_index

(* line 474: the pet is in a row other than the child's own *)
reassigned(prev_owner_index, owner_row_index) ==
    prev_owner_index # NoIndex /\ prev_owner_index # owner_row_index

(* lines 458-504: the writes, after the operator confirmed *)
link_write(child_id_str, pet_id_str, child_name, failed, answers) ==
    \E ok6 \in Answer :
        LET owner == find_row_by_child_name(owners_sheet, child_name, ok6)
            Say(outcome, fails, writes) ==
                [Report("link", outcome, failed \cup fails, answers, writes)
                 EXCEPT !.linked = IF writes = <<>> THEN <<>>
                                   ELSE <<child_id_str, pet_id_str>>]
        IN  IF owner.index = ErrorIndex THEN Return(Say("error", {"link6"}, <<>>))
            ELSE \E ok7 \in Answer :
                 LET prev_owner == find_row_by_pet_id(owners_sheet, pet_id_str, ok7)
                     steal == reassigned(prev_owner.index, owner.index)
                     failed7 == Failed(ok7, "pet7")
                     cleared == IF steal
                                THEN update_cell(owners_sheet, prev_owner.index, 2, <<>>)
                                ELSE owners_sheet
                     clear_sent == IF steal
                                   THEN << <<"update_cell", prev_owner.index>> >>
                                   ELSE <<>>
                     linked == IF owner.row # None
                               THEN update_cell(cleared, owner.index, 2,
                                                str(int(pet_id_str)))
                               ELSE append_row(cleared,
                                               <<child_name, str(int(pet_id_str))>>)
                     write_sent == IF owner.row # None
                                   THEN << <<"update_cell", owner.index>> >>
                                   ELSE << <<"append_row", Len(cleared) + 1>> >>
                 IN  IF steal /\ prev_owner.row = None
                     THEN \* prev_owner_row[0] of None raises TypeError
                          Return(Say("error", failed7, <<>>))
                     ELSE \E okClear \in (IF steal THEN Answer ELSE {TRUE}) :
                          IF ~okClear
                          THEN Return(Say("error", failed7 \cup {"clear"}, clear_sent))
                          ELSE \E okWrite \in Answer :
                               /\ owners_sheet' = IF okWrite THEN linked ELSE cleared
                               /\ last' = IF okWrite
                                          THEN Say("success", failed7,
                                                   clear_sent \o write_sent)
                                          ELSE Say("error", failed7 \cup {"write"},
                                                   clear_sent \o write_sent)
                               /\ UNCHANGED <<children_sheet, pets_sheet>>

(* lines 424-457 and 505-507: the checks and the two questions *)
link_confirm(child_id_str, pet_id_str, child_name) ==
    \E ok3 \in Answer :
        LET existing_link == find_row_by_child_name(owners_sheet, child_name, ok3).row
            has_link == existing_link # None /\ Len(existing_link) > 1
                                               /\ existing_link[2] # <<>>
            failed3 == Failed(ok3, "link3")
        IN  \E replace \in (IF has_link THEN YesNo ELSE {NotAsked}) :
                IF has_link /\ ~confirm_action(replace)
                THEN Return(Report("link", "cancelled", {}, <<replace>>, <<>>))
                ELSE \E ok4 \in Answer, confirm \in YesNo :
                        \* pet_link is only shown to the operator
                        LET failed == failed3 \cup Failed(ok4, "pet4")
                            answers == IF has_link THEN <<replace, confirm>>
                                       ELSE <<confirm>>
                        IN  IF confirm_action(confirm)
                            THEN link_write(child_id_str, pet_id_str, child_name,
                                            failed, answers)
                            ELSE Return(Report("link", "cancelled", failed, answers,
                                               <<>>))

link_child_pet(child_id_str, pet_id_str) ==
    \E okChild \in Answer :
        LET child == find_row_by_id(children_sheet, child_id_str, okChild)
            child_data == child.row
            child_name == full_name(child_data[2], child_data[3])
        IN  /\ validate_integer(child_id_str)
            /\ IF child.index = ErrorIndex
               THEN /\ pet_id_str = NotTyped
                    /\ Return(Report("link", "error", {"child"}, <<>>, <<>>))
               ELSE \* "Child with ID ... not found": the operator is asked again
                    /\ child_data # None
                    /\ validate_integer(pet_id_str)
                    /\ \E okPet \in Answer :
                        LET pet == find_row_by_id(pets_sheet, pet_id_str, okPet)
                        IN  IF pet.index = ErrorIndex
                            THEN Return(Report("link", "error", {"pet"}, <<>>, <<>>))
                            ELSE /\ pet.row # None
                                 /\ link_confirm(child_id_str, pet_id_str, child_name)

(***************************************************************************)
(* 4. Search Pet by Child ID.  Backend calls: "child", "link", "pet".      *)
(* failing: the calls that fail if they are made.  The result: what the    *)
(* operator is told (outcome), the id shown with it, the calls that failed.*)
(***************************************************************************)
Result(outcome, shown, fails) == [outcome |-> outcome, shown |-> shown, fails |-> fails]

search_by_child_result(child_id_str, failing) ==
    LET child == find_row_by_id(children_sheet, child_id_str, "child" \notin failing)
        child_data == child.row
        child_name == full_name(child_data[2], child_data[3])
        owner == find_row_by_child_name(owners_sheet, child_name, "link" \notin failing)
        owner_row == owner.row
        pet == find_row_by_id(pets_sheet, owner_row[2], "pet" \notin failing)
    IN  IF child.index = ErrorIndex THEN Result("error", <<>>, {"child"})
        ELSE IF child_data = None THEN Result("not_found", <<>>, {})
        ELSE IF owner.index = ErrorIndex THEN Result("error", <<>>, {"link"})
        ELSE IF owner_row # None /\ Len(owner_row) > 1 /\ owner_row[2] # <<>>
        THEN IF pet.index = ErrorIndex THEN Result("error", <<>>, {"pet"})
             ELSE IF pet.row # None THEN Result("found", pet.row[1], {})
             ELSE Result("inconsistent", owner_row[2], {})
        ELSE Result("not_linked", <<>>, {})

search_by_child(child_id_str) ==
    \E failing \in SUBSET SearchByChildCalls :
        LET result == search_by_child_result(child_id_str, failing)
        IN  /\ validate_integer(child_id_str)
            /\ result.fails = failing
            /\ Return(Report("search_by_child", result.outcome, result.fails, <<>>, <<>>))

(* a variant that finds no child *)
first_child_named_blind(all_children, child_name, index) == NoResult

(* lines 643-646: the first row of all_children[1:] with the full name *)
RECURSIVE first_child_named(_, _, _)
first_child_named(all_children, child_name, index) ==
    IF index > Len(all_children) THEN NoResult
    ELSE IF Len(all_children[index]) > 0
            /\ full_name(all_children[index][2], all_children[index][3]) = child_name
    THEN [row |-> all_children[index], index |-> index]
    ELSE first_child_named(all_children, child_name, index + 1)

(***************************************************************************)
(* 5. Search Child by Pet ID.  Backend calls: "pet", "link", "children"    *)
(* (children_sheet.get_all_values(), line 640).                            *)
(***************************************************************************)
search_by_pet_result(pet_id_str, failing) ==
    LET pet == find_row_by_id(pets_sheet, pet_id_str, "pet" \notin failing)
        owner == find_row_by_pet_id(owners_sheet, pet_id_str, "link" \notin failing)
        owner_row == owner.row
        child_name == owner_row[1]
        all_children == children_sheet
        found == first_child_named(all_children, child_name, 2)
    IN  IF pet.index = ErrorIndex THEN Result("error", <<>>, {"pet"})
        ELSE IF pet.row = None THEN Result("not_found", <<>>, {})
        ELSE IF owner.index = ErrorIndex THEN Result("error", <<>>, {"link"})
        ELSE IF owner_row # None
        THEN IF "children" \in failing THEN Result("error", <<>>, {"children"})
             ELSE IF found.row # None THEN Result("found", found.row[1], {})
             ELSE Result("inconsistent", child_name, {})
        ELSE Result("not_linked", <<>>, {})

search_by_pet(pet_id_str) ==
    \E failing \in SUBSET SearchByPetCalls :
        LET result == search_by_pet_result(pet_id_str, failing)
        IN  /\ validate_integer(pet_id_str)
            /\ result.fails = failing
            /\ Return(Report("search_by_pet", result.outcome, result.fails, <<>>, <<>>))

(***************************************************************************)
(* 6. Delete a Child by ID.  Backend calls: "child", "delete" (delete_rows *)
(* on Children), "link" (the Owners look-up), "unlink" (delete_rows on     *)
(* Owners).                                                                *)
(***************************************************************************)
delete_child(child_id_str) ==
    \E okChild \in Answer :
        LET child == find_row_by_id(children_sheet, child_id_str, okChild)
            child_data == child.row
            child_name == full_name(child_data[2], child_data[3])
            deleted == << <<"delete_rows", child.index>> >>
            Say(outcome, fails, answers, writes) ==
                Report("delete_child", outcome, fails, answers, writes)
        IN  /\ validate_integer(child_id_str)
            /\ IF child.index = ErrorIndex
               THEN Return(Say("error", {"child"}, <<>>, <<>>))
               ELSE IF child_data = None
               THEN Return(Say("not_found", {}, <<>>, <<>>))
               ELSE \E confirm \in YesNo :
                    IF ~confirm_action(confirm)
                    THEN Return(Say("cancelled", {}, <<confirm>>, <<>>))
                    ELSE \E okDelete \in Answer :
                         IF ~okDelete THEN Return(Say("error", {"delete"}, <<confirm>>, deleted))
                         ELSE
                         /\ children_sheet' = delete_rows(children_sheet, child.index)
                         /\ UNCHANGED pets_sheet
                         /\ \E okLink \in Answer :
                            LET owner == find_row_by_child_name(owners_sheet, child_name,
                                                                okLink)
                                unlinked == << <<"delete_rows", owner.index>> >>
                            IN  IF owner.index = ErrorIndex
                                THEN /\ last' = Say("warned", {"link"}, <<confirm>>, deleted)
                                     /\ UNCHANGED owners_sheet
                                ELSE IF owner.row # None
                                THEN \E okUnlink \in Answer :
                                     IF okUnlink
                                     THEN /\ owners_sheet' = delete_rows(owners_sheet,
                                                                         owner.index)
                                          /\ last' = Say("success", {}, <<confirm>>,
                                                         deleted \o unlinked)
                                     ELSE /\ last' = Say("error", {"unlink"}, <<confirm>>,
                                                         deleted \o unlinked)
                                          /\ UNCHANGED owners_sheet
                                ELSE /\ last' = Say("success", {}, <<confirm>>, deleted)
                                     /\ UNCHANGED owners_sheet

(***************************************************************************)
(* 7. Delete a Pet by ID.  Backend calls: "pet", "delete" (delete_rows on  *)
(* Pets), "link" (the Owners look-up), "unlink" (update_cell on Owners).   *)
(***************************************************************************)
delete_pet(pet_id_str) ==
    \E okPet \in Answer :
        LET pet == find_row_by_id(pets_sheet, pet_id_str, okPet)
            deleted == << <<"delete_rows", pet.index>> >>
            Say(outcome, fails, answers, writes) ==
                Report("delete_pet", outcome, fails, answers, writes)
        IN  /\ validate_integer(pet_id_str)
            /\ IF pet.index = ErrorIndex
               THEN Return(Say("error", {"pet"}, <<>>, <<>>))
               ELSE IF pet.row = None
               THEN Return(Say("not_found", {}, <<>>, <<>>))
               ELSE \E confirm \in YesNo :
                    IF ~confirm_action(confirm)
                    THEN Return(Say("cancelled", {}, <<confirm>>, <<>>))
                    ELSE \E okDelete \in Answer :
                         IF ~okDelete THEN Return(Say("error", {"delete"}, <<confirm>>, deleted))
                         ELSE
                         /\ pets_sheet' = delete_rows(pets_sheet, pet.index)
                         /\ UNCHANGED children_sheet
                         /\ \E okLink \in Answer :
                            LET owner == find_row_by_pet_id(owners_sheet, pet_id_str,
                                                            okLink)
                                unlinked == << <<"update_cell", owner.index>> >>
                            IN  IF owner.index = ErrorIndex
                                THEN /\ last' = Say("warned", {"link"}, <<confirm>>, deleted)
                                     /\ UNCHANGED owners_sheet
                                ELSE IF owner.row # None
                                THEN \E okUnlink \in Answer :
                                     IF okUnlink
                                     THEN /\ owners_sheet' = update_cell(owners_sheet,
                                                                owner.index, 2, <<>>)
                                          /\ last' = Say("success", {}, <<confirm>>,
                                                         deleted \o unlinked)
                                     ELSE /\ last' = Say("error", {"unlink"}, <<confirm>>,
                                                         deleted \o unlinked)
                                          /\ UNCHANGED owners_sheet
                                ELSE /\ last' = Say("success", {}, <<confirm>>, deleted)
                                     /\ UNCHANGED owners_sheet

(***************************************************************************)
(* The menu (main, lines 848-891): one operation at a time, run to its end *)
(***************************************************************************)
AddChild ==
    \E first_in \in FirstNameInputs, last_in \in LastNameInputs \cup {NotTyped},
       age_in \in ChildAgeInputs \cup {NotTyped} :
        add_child(first_in, last_in, age_in)

AddPet ==
    \E nick_in \in NicknameInputs, age_in \in PetAgeInputs \cup {NotTyped},
       type_in \in PetTypeInputs \cup {NotTyped} :
        add_pet(nick_in, age_in, type_in)

LinkChildPet ==
    \E child_id_str \in IdInputs, pet_id_str \in IdInputs \cup {NotTyped} :
        link_child_pet(child_id_str, pet_id_str)

SearchByChild == \E child_id_str \in IdInputs : search_by_child(child_id_str)

SearchByPet == \E pet_id_str \in IdInputs : search_by_pet(pet_id_str)

DeleteChild == \E child_id_str \in IdInputs : delete_child(child_id_str)

DeletePet == \E pet_id_str \in IdInputs : delete_pet(pet_id_str)

Next ==
    \/ AddChild
    \/ AddPet
    \/ LinkChildPet
    \/ SearchByChild
    \/ SearchByPet
    \/ DeleteChild
    \/ DeletePet

Spec == Init /\ [][Next]_vars

(***************************************************************************)
(* The operations on the records there are, without the two adds, from     *)
(* tables that hold two children of one full name and two pets: the state  *)
(* after add_child and add_pet ran twice each with the same answers.       *)
(***************************************************************************)
TwinsInit ==
    /\ children_sheet = <<ChildrenHeader,
                          << <<"1">>, <<"A", "n", "n">>, <<"L", "e", "e">>, <<"1", "0">> >>,
                          << <<"2">>, <<"A", "n", "n">>, <<"L", "e", "e">>, <<"1", "0">> >> >>
    /\ pets_sheet = <<PetsHeader,
                      << <<"1">>, <<"R", "e", "x">>, <<"3">>, <<"p", "u", "p", "p", "y">> >>,
                      << <<"2">>, <<"R", "e", "x">>, <<"3">>, <<"p", "u", "p", "p", "y">> >> >>
    /\ owners_sheet = <<OwnersHeader>>
    /\ last = Report("start", "none", {}, <<>>, <<>>)

TwinsNext ==
    \/ LinkChildPet
    \/ SearchByChild
    \/ SearchByPet
    \/ DeleteChild
    \/ DeletePet

TwinsSpec == TwinsInit /\ [][TwinsNext]_vars

(***************************************************************************)
(* The helpers on their own: get_next_id, the three locators and           *)
(* validate_range, called on a worksheet of any content, hand-edited cells *)
(* included.  children_sheet is the worksheet handed to the helper, a row  *)
(* is <<first column, second column>>, and last records the call: the      *)
(* helper, its arguments, whether get_all_values() answered, the result,   *)
(* and whether the call before it was the same helper with the same        *)
(* arguments (again).                                                      *)
(***************************************************************************)
MaxRows == 2

WorksheetHeader == << <<"I", "D">>, <<"P">> >>

FirstCells == {<<"1">>, <<"3">>, <<"x">>, <<"sup2">>}

SecondCells == {<<>>, <<"1">>}

WorksheetRows == {<<first, second>> : first \in FirstCells, second \in SecondCells}

Worksheets ==
    UNION {{<<WorksheetHeader>> \o rows : rows \in [1..n -> WorksheetRows]} : n \in 0..MaxRows}

IdArguments == {<<"1">>, <<"3">>, <<"0", "1">>, <<"x">>, <<"sup2">>}

NameArguments == {<<"x">>, <<"1">>, <<"y">>}

TextArguments ==
    {<<>>, <<"4">>, <<"5">>, <<"0", "1", "0">>, <<"1", "8">>, <<"1", "9">>,
     <<"1", "x">>, <<"x">>, <<"sup2">>, <<"1", "sup2">>}

RangeArguments == {<<5, 18>>, <<0, 12>>}

Called(op, args, ok, result) ==
    [op |-> op, args |-> args, ok |-> ok, result |-> result,
     again |-> (last.op = op /\ last.args = args)]

HelpersInit ==
    /\ children_sheet \in Worksheets
    /\ pets_sheet = <<PetsHeader>>
    /\ owners_sheet = <<OwnersHeader>>
    /\ last = [op |-> "start", args |-> <<>>, ok |-> TRUE, result |-> <<>>,
               again |-> FALSE]

CallGetNextId ==
    \E ok \in Answer :
        /\ last' = Called("get_next_id", <<>>, ok, get_next_id(children_sheet, ok))
        /\ UNCHANGED sheets

(* a scan that is not made (line 152: the id is not a digit string) cannot fail *)
CallFindRowById ==
    \E id_str \in IdArguments, ok \in Answer :
        /\ isdigit(id_str) \/ ok
        /\ last' = Called("find_row_by_id", <<id_str>>, ok,
                          find_row_by_id(children_sheet, id_str, ok))
        /\ UNCHANGED sheets

CallFindRowByChildName ==
    \E name \in NameArguments, ok \in Answer :
        /\ last' = Called("find_row_by_child_name", <<name>>, ok,
                          find_row_by_child_name(children_sheet, name, ok))
        /\ UNCHANGED sheets

CallFindRowByPetId ==
    \E pet_id_str \in IdArguments, ok \in Answer :
        /\ isdigit(pet_id_str) \/ ok
        /\ last' = Called("find_row_by_pet_id", <<pet_id_str>>, ok,
                          find_row_by_pet_id(children_sheet, pet_id_str, ok))
        /\ UNCHANGED sheets

CallValidateRange ==
    \E input_str \in TextArguments, range \in RangeArguments :
        /\ last' = Called("validate_range", <<input_str, range[1], range[2]>>, TRUE,
                          IF validate_range_raises(input_str) THEN "ValueError"
                          ELSE IF validate_range(input_str, range[1], range[2])
                          THEN "True" ELSE "False")
        /\ UNCHANGED sheets

(* a write to the worksheet between two calls: a row appended or deleted *)
WriteWorksheet ==
    /\ \/ \E row \in WorksheetRows :
            /\ Len(children_sheet) <= MaxRows
            /\ children_sheet' = append_row(children_sheet, row)
       \/ \E row \in 2..Len(children_sheet) :
            children_sheet' = delete_rows(children_sheet, row)
    /\ last' = Called("write", <<>>, TRUE, <<>>)
    /\ UNCHANGED <<pets_sheet, owners_sheet>>

HelpersNext ==
    \/ CallGetNextId
    \/ CallFindRowById
    \/ CallFindRowByChildName
    \/ CallFindRowByPetId
    \/ CallValidateRange
    \/ WriteWorksheet

HelpersSpec == HelpersInit /\ [][HelpersNext]_vars

(***************************************************************************)
(* The dialogue: the menu and the prompts of each operation, one answer at *)
(* a time, with a backend that answers every call.  While an operation is  *)
(* asking, last is the prompt it is at, the answers accepted so far and    *)
(* whether the prompt was repeated; when the operation ends, last is its   *)
(* report and the menu is shown again (main, line 887).                    *)
(***************************************************************************)
Asking(op, prompt, typed, repeated) ==
    [op |-> op, outcome |-> "asking", prompt |-> prompt, typed |-> typed,
     repeated |-> repeated]

AtMenu == last.outcome # "asking"

At(op, prompt) == last.outcome = "asking" /\ last.op = op /\ last.prompt = prompt

(* what the operator may type at a prompt *)
Typed(prompt) ==
    CASE prompt = "first_name" -> FirstNameInputs
      [] prompt = "last_name" -> LastNameInputs
      [] prompt = "nickname" -> NicknameInputs
      [] prompt = "child_age" -> ChildAgeInputs \cup {<<" ">>}
      [] prompt = "pet_age" -> PetAgeInputs \cup {<<" ">>}
      [] prompt = "type" -> PetTypeInputs \cup {<<" ">>}
      [] prompt = "confirm" -> {<<c>> : c \in YesNo} \cup {<<"q">>}
      [] OTHER -> IdInputs \cup {<<"x">>, <<" ">>}

(* the prompt takes the answer and is not repeated: input() takes any      *)
(* text, validate_input (lines 97-107) a non-empty text its validator      *)
(* accepts, confirm_action (lines 130-137) y or n, and the two loops of    *)
(* link_child_pet (lines 371-422) an id that a row has                     *)
Accepted(op, prompt, text) ==
    LET input == strip(text)
    IN  CASE prompt \in {"first_name", "last_name", "nickname"} -> TRUE
          [] prompt = "child_age" ->
                input # <<>> /\ ~validate_range_raises(input) /\ validate_range(input, 5, 18)
          [] prompt = "pet_age" ->
                input # <<>> /\ ~validate_range_raises(input) /\ validate_range(input, 0, 12)
          [] prompt = "type" -> input # <<>> /\ lowercase(input) \in {<<"p">>, <<"k">>}
          [] prompt = "confirm" -> lowercase(input) \in {<<"y">>, <<"n">>}
          [] prompt = "child_id" ->
                /\ input # <<>> /\ validate_integer(input)
                /\ op = "link" => find_row_by_id(children_sheet, input, TRUE).row # None
          [] prompt = "pet_id" ->
                /\ input # <<>> /\ validate_integer(input)
                /\ op = "link" => find_row_by_id(pets_sheet, input, TRUE).row # None

FirstPrompts ==
    {<<"add_child", "first_name">>, <<"add_pet", "nickname">>, <<"link", "child_id">>,
     <<"search_by_child", "child_id">>, <<"search_by_pet", "pet_id">>,
     <<"delete_child", "child_id">>, <<"delete_pet", "pet_id">>}

(* main, lines 866-884: a choice of 1..7 starts the operation; an add is   *)
(* chosen while the table has room for the row                             *)
Choose ==
    /\ AtMenu
    /\ \E choice \in FirstPrompts :
        /\ choice[1] = "add_child" => get_next_id(children_sheet, TRUE) <= MaxChildId
        /\ choice[1] = "add_pet" => get_next_id(pets_sheet, TRUE) <= MaxPetId
        /\ last' = Asking(choice[1], choice[2], <<>>, FALSE)
    /\ UNCHANGED sheets

(* an answer the prompt does not take: the prompt is repeated *)
Repeat ==
    /\ ~AtMenu
    /\ \E text \in Typed(last.prompt) :
        /\ ~Accepted(last.op, last.prompt, text)
        /\ last' = [last EXCEPT !.repeated = ~@]
    /\ UNCHANGED sheets

(* an answer the prompt takes, after which the operation asks on *)
NextPrompt ==
    /\ ~AtMenu
    /\ \E text \in Typed(last.prompt) :
        /\ Accepted(last.op, last.prompt, text)
        /\ \/ /\ At("add_child", "first_name") /\ capitalize(strip(text)) # <<>>
              /\ last' = Asking("add_child", "last_name", <<text>>, FALSE)
           \/ /\ At("add_child", "last_name") /\ capitalize(strip(text)) # <<>>
              /\ last' = Asking("add_child", "child_age", Append(last.typed, text), FALSE)
           \/ /\ At("add_pet", "nickname") /\ capitalize(strip(text)) # <<>>
              /\ last' = Asking("add_pet", "pet_age", <<text>>, FALSE)
           \/ /\ At("add_pet", "pet_age")
              /\ last' = Asking("add_pet", "type", Append(last.typed, text), FALSE)
           \/ /\ At("link", "child_id")
              /\ last' = Asking("link", "pet_id", <<text>>, FALSE)
           \/ /\ At("link", "pet_id")
              /\ last' = Asking("link", "confirm", Append(last.typed, text), FALSE)
           \/ /\ At("delete_child", "child_id")
              /\ find_row_by_id(children_sheet, text, TRUE).row # None
              /\ last' = Asking("delete_child", "confirm", <<text>>, FALSE)
           \/ /\ At("delete_pet", "pet_id")
              /\ find_row_by_id(pets_sheet, text, TRUE).row # None
              /\ last' = Asking("delete_pet", "confirm", <<text>>, FALSE)
    /\ UNCHANGED sheets

(* the backend answered every call of the operation *)
Answered == last'.fails = {}

(* an answer the prompt takes, after which the operation runs to its end *)
Finish ==
    /\ ~AtMenu
    /\ \E text \in Typed(last.prompt) :
        /\ Accepted(last.op, last.prompt, text)
        /\ \/ At("add_child", "first_name") /\ add_child(text, NotTyped, NotTyped)
           \/ At("add_child", "last_name") /\ add_child(last.typed[1], text, NotTyped)
           \/ /\ At("add_child", "child_age")
              /\ add_child(last.typed[1], last.typed[2], text) /\ Answered
           \/ At("add_pet", "nickname") /\ add_pet(text, NotTyped, NotTyped)
           \/ /\ At("add_pet", "type")
              /\ add_pet(last.typed[1], last.typed[2], text) /\ Answered
           \/ /\ At("link", "confirm")
              /\ link_child_pet(last.typed[1], last.typed[2]) /\ Answered
           \/ At("search_by_child", "child_id") /\ search_by_child(text) /\ Answered
           \/ At("search_by_pet", "pet_id") /\ search_by_pet(text) /\ Answered
           \/ /\ At("delete_child", "child_id")
              /\ find_row_by_id(children_sheet, text, TRUE).row = None
              /\ delete_child(text) /\ Answered
           \/ At("delete_child", "confirm") /\ delete_child(last.typed[1]) /\ Answered
           \/ /\ At("delete_pet", "pet_id")
              /\ find_row_by_id(pets_sheet, text, TRUE).row = None
              /\ delete_pet(text) /\ Answered
           \/ At("delete_pet", "confirm") /\ delete_pet(last.typed[1]) /\ Answered

DialogueNext ==
    \/ Choose
    \/ Repeat
    \/ NextPrompt
    \/ Finish

(* the operator answers every prompt (input() waits for the answer) and   *)
(* gives, in the end, an answer that the prompt takes, when there is one   *)
DialogueSpec ==
    /\ Init /\ [][DialogueNext]_vars
    /\ WF_vars(Repeat \/ NextPrompt \/ Finish)
    /\ WF_vars(NextPrompt) /\ WF_vars(Finish)

(***************************************************************************)
(* The ids a table goes through: rows are added with the id get_next_id    *)
(* computes (add_child, lines 276-290; add_pet, lines 339-353) and deleted *)
(* (delete_child, line 724; delete_pet, line 800), every backend call      *)
(* answering.  last keeps the ledger of the ids each table has assigned.   *)
(***************************************************************************)
MaxAssigned == MaxChildId + 1

Assigned(op, id, children, pets) ==
    [op |-> op, id |-> id, children |-> children, pets |-> pets]

AllocatorInit ==
    /\ children_sheet = <<ChildrenHeader>>
    /\ pets_sheet = <<PetsHeader>>
    /\ owners_sheet = <<OwnersHeader>>
    /\ last = Assigned("start", NoId, {}, {})

(* add_child as far as ids go: next_id = get_next_id(children_sheet), then *)
(* children_sheet.append_row([next_id, first_name, last_name, age])        *)
AllocateChild ==
    LET next_id == get_next_id(children_sheet, TRUE)
        new_child_data == <<str(next_id), <<"A", "n", "n">>, <<"L", "e", "e">>,
                            <<"1", "0">> >>
    IN  /\ next_id # NoId
        /\ next_id <= MaxAssigned
        /\ children_sheet' = append_row(children_sheet, new_child_data)
        /\ last' = Assigned("add_child", next_id, last.children \cup {next_id},
                            last.pets)
        /\ UNCHANGED <<pets_sheet, owners_sheet>>

(* add_pet as far as ids go *)
AllocatePet ==
    LET next_id == get_next_id(pets_sheet, TRUE)
        new_pet_data == <<str(next_id), <<"R", "e", "x">>, <<"3">>,
                          <<"p", "u", "p", "p", "y">> >>
    IN  /\ next_id # NoId
        /\ next_id <= MaxAssigned
        /\ pets_sheet' = append_row(pets_sheet, new_pet_data)
        /\ last' = Assigned("add_pet", next_id, last.children,
                            last.pets \cup {next_id})
        /\ UNCHANGED <<children_sheet, owners_sheet>>

(* delete_child of a child that has no Owners row, confirmed *)
RemoveChild ==
    \E child_id_str \in {str(i) : i \in 1..MaxAssigned} :
        LET child == find_row_by_id(children_sheet, child_id_str, TRUE)
        IN  /\ child.row # None
            /\ children_sheet' = delete_rows(children_sheet, child.index)
            /\ last' = Assigned("delete_child", int(child_id_str), last.children,
                                last.pets)
            /\ UNCHANGED <<pets_sheet, owners_sheet>>

(* delete_pet of a pet that has no Owners row, confirmed *)
RemovePet ==
    \E pet_id_str \in {str(i) : i \in 1..MaxAssigned} :
        LET pet == find_row_by_id(pets_sheet, pet_id_str, TRUE)
        IN  /\ pet.row # None
            /\ pets_sheet' = delete_rows(pets_sheet, pet.index)
            /\ last' = Assigned("delete_pet", int(pet_id_str), last.children,
                                last.pets)
            /\ UNCHANGED <<children_sheet, owners_sheet>>

AllocatorNext ==
    \/ AllocateChild
    \/ AllocatePet
    \/ RemoveChild
    \/ RemovePet

AllocatorSpec == AllocatorInit /\ [][AllocatorNext]_vars

(***************************************************************************)
(* Properties                                                              *)
(***************************************************************************)
(* the numbers of the rows below the header *)
DataRowNumbers(ws) == 2..Len(ws)

(* the data rows of Children (of Pets) whose id cell is the text typed *)
RowsWithId(ws, id_str) == {i \in DataRowNumbers(ws) : ws[i][1] = id_str}

(* the Owners rows whose name cell is name *)
RowsWithName(name) == {i \in DataRowNumbers(owners_sheet) : owners_sheet[i][1] = name}

(* C1: in every reachable state, runs in which backend calls fail part-way  *)
(* included, each non-empty pet id is in the pet cell of at most one Owners *)
(* row.                                                                     *)
C1_PetInAtMostOneOwnersRow ==
    \A i, j \in 1..Len(owners_sheet) :
        (owners_sheet[i][2] # <<>> /\ owners_sheet[i][2] = owners_sheet[j][2]) => i = j

(* a link took the pet from its previous owner: one row was cleared, one    *)
(* row holds the pet                                                        *)
C1_Witness ==
    /\ last.op = "link" /\ last.outcome = "success" /\ Len(last.writes) = 2
    /\ \E i, j \in DataRowNumbers(owners_sheet) :
        owners_sheet[i][2] = <<>> /\ owners_sheet[j][2] # <<>>

(* link appends a row only for a name no Owners row has, and otherwise      *)
(* writes the pet cell of the row that has the name                         *)
LinkAppendsOnlyNewNames ==
    \A child_id_str, pet_id_str \in IdInputs :
        (/\ last'.op = "link" /\ last'.outcome = "success"
         /\ link_child_pet(child_id_str, pet_id_str)) =>
            \A c \in RowsWithId(children_sheet, child_id_str) :
                LET name == full_name(children_sheet[c][2], children_sheet[c][3])
                IN  IF RowsWithName(name) = {}
                    THEN /\ Len(owners_sheet') = Len(owners_sheet) + 1
                         /\ owners_sheet'[Len(owners_sheet')] = <<name, pet_id_str>>
                    ELSE /\ Len(owners_sheet') = Len(owners_sheet)
                         /\ \A i \in RowsWithName(name) :
                                owners_sheet'[i] = <<name, pet_id_str>>

OneOwnersRowPerName ==
    \A i, j \in 1..Len(owners_sheet) :
        owners_sheet[i][1] = owners_sheet[j][1] => i = j

(* C2: in every reachable state Owners has at most one row per child full   *)
(* name: link appends a row only when no row has the name, and otherwise    *)
(* updates the row that has it.                                             *)
C2_OneOwnersRowPerName == []OneOwnersRowPerName /\ [][LinkAppendsOnlyNewNames]_vars

(* a link appended a row and a later link updated a row: two names, two rows *)
C2_Witness ==
    /\ last.op = "link" /\ last.outcome = "success"
    /\ last.writes[Len(last.writes)][1] = "update_cell"
    /\ Len(owners_sheet) = 3

IdsUniqueAndPositive(ws) ==
    /\ \A i, j \in DataRowNumbers(ws) : ws[i][1] = ws[j][1] => i = j
    /\ \A i \in DataRowNumbers(ws) : isdigit(ws[i][1]) /\ int(ws[i][1]) >= 1

(* C3: in every reachable state no two Children rows and no two Pets rows   *)
(* have the same id, and every id add_child or add_pet assigned is a        *)
(* positive integer.                                                        *)
C3_IdsUniqueAndPositive ==
    IdsUniqueAndPositive(children_sheet) /\ IdsUniqueAndPositive(pets_sheet)

(* a child was added after a child was deleted, next to another child *)
C3_Witness ==
    /\ last.op = "add_child" /\ last.outcome = "success"
    /\ Len(children_sheet) = 3 /\ Len(pets_sheet) = 2
    /\ last.writes[1][2] = 3
    /\ children_sheet[3][2] # children_sheet[2][2]

(* the full names of the Children rows with the id (at most one row, C3) *)
NamesOfChild(child_id_str) ==
    {full_name(children_sheet[c][2], children_sheet[c][3]) :
        c \in RowsWithId(children_sheet, child_id_str)}

(* the child's Owners row holds the pet *)
LinkedTo(child_id_str, pet_id_str) ==
    \E name \in NamesOfChild(child_id_str) :
        \E i \in RowsWithName(name) : owners_sheet[i][2] = pet_id_str

(* the step is a successful link of the pet to child b, and the operation  *)
(* before it was a successful link of the same pet to another child a      *)
Relinked(a, b, pet_id_str) ==
    /\ last.op = "link" /\ last.outcome = "success"
    /\ last.linked = <<a, pet_id_str>>
    /\ a # b
    /\ last'.op = "link" /\ last'.outcome = "success"
    /\ last'.linked = <<b, pet_id_str>>

(* the id cell of the first Children row with the full name *)
FirstChildNamed(name) ==
    LET rows == {c \in DataRowNumbers(children_sheet) :
                    full_name(children_sheet[c][2], children_sheet[c][3]) = name}
    IN  children_sheet[CHOOSE c \in rows : \A d \in rows : c <= d][1]

(* C4 as stated: after a successful link of pet P to child A followed by a *)
(* successful link of P to child B, search-by-pet(P) reports child B and   *)
(* search-by-child(A) reports "not linked" (here for two links in which no *)
(* backend call fails).                                                    *)
C4_RelinkAsStated ==
    [][\A a, b, pet_id_str \in IdInputs :
        (Relinked(a, b, pet_id_str) /\ last.fails = {} /\ last'.fails = {}) =>
            /\ search_by_pet_result(pet_id_str, {})' = Result("found", b, {})
            /\ search_by_child_result(a, {})'.outcome = "not_linked"]_vars

(* C4: after a successful link of pet P to child A followed by a           *)
(* successful link of P to child B, search-by-pet(P) reports the first     *)
(* Children row that has B's full name; search-by-child(A) reports "not    *)
(* linked" when A's full name differs from B's, and reports P when the two *)
(* children have the same full name (they share one Owners row).           *)
C4_Relink ==
    [][\A a, b, pet_id_str \in IdInputs :
        Relinked(a, b, pet_id_str) =>
            \A name_a \in NamesOfChild(a), name_b \in NamesOfChild(b) :
                /\ search_by_pet_result(pet_id_str, {})' =
                       Result("found", FirstChildNamed(name_b), {})
                /\ name_a # name_b =>
                       search_by_child_result(a, {})'.outcome = "not_linked"
                /\ name_a = name_b =>
                       search_by_child_result(a, {})' =
                           Result("found", pet_id_str, {})]_vars

(* the pet went from one child's row, now cleared, to the row of a child   *)
(* with another name                                                       *)
C4_Witness ==
    /\ last.op = "link" /\ last.outcome = "success" /\ Len(last.writes) = 2
    /\ last.writes[1][1] = "update_cell"
    /\ \E a \in IdInputs :
        /\ a # last.linked[1]
        /\ \E name \in NamesOfChild(a) :
            \E i \in RowsWithName(name) :
                i = last.writes[1][2] /\ owners_sheet[i][2] = <<>>
    /\ search_by_pet_result(last.linked[2], {}) = Result("found", last.linked[1], {})

(* C5: after a confirmed delete-child(A) in which no backend call fails,   *)
(* where A was linked to pet P, Owners has no row with A's full name (the  *)
(* row is deleted, not cleared) and Pets, P's row included, is unchanged.  *)
C5_DeleteChildCascades ==
    [][\A child_id_str, pet_id_str \in IdInputs :
        (/\ last'.op = "delete_child" /\ last'.answers = <<"Y">> /\ last'.fails = {}
         /\ pet_id_str \in {str(i) : i \in 1..MaxPetId}
         /\ LinkedTo(child_id_str, pet_id_str)
         /\ delete_child(child_id_str)) =>
            /\ \A name \in NamesOfChild(child_id_str) :
                \A i \in DataRowNumbers(owners_sheet') : owners_sheet'[i][1] # name
            /\ Len(owners_sheet') = Len(owners_sheet) - 1
            /\ pets_sheet' = pets_sheet]_vars

(* a linked child was deleted together with its Owners row; the pet stays *)
C5_Witness ==
    /\ last.op = "delete_child" /\ last.outcome = "success"
    /\ Len(last.writes) = 2 /\ last.writes[2][1] = "delete_rows"
    /\ Len(pets_sheet) = 2
    /\ Len(children_sheet) = 2

(* C6: after a confirmed delete-pet(P) in which no backend call fails,     *)
(* where P was linked to child A, Owners still has A's row, with an empty  *)
(* pet cell, and as many rows as before; Children is unchanged; a          *)
(* search-by-child(A) then reports "not linked".                           *)
C6_DeletePetKeepsOwnersRow ==
    [][\A child_id_str, pet_id_str \in IdInputs :
        (/\ last'.op = "delete_pet" /\ last'.answers = <<"Y">> /\ last'.fails = {}
         /\ LinkedTo(child_id_str, pet_id_str)
         /\ delete_pet(pet_id_str)) =>
            /\ Len(owners_sheet') = Len(owners_sheet)
            /\ \A name \in NamesOfChild(child_id_str) :
                /\ RowsWithName(name) # {}
                /\ \A i \in RowsWithName(name) : owners_sheet'[i] = <<name, <<>> >>
            /\ children_sheet' = children_sheet
            /\ search_by_child_result(child_id_str, {})' = Result("not_linked", <<>>, {})]_vars

(* a linked pet was deleted: the child's Owners row is there, its pet cell *)
(* empty                                                                   *)
C6_Witness ==
    /\ last.op = "delete_pet" /\ last.outcome = "success"
    /\ Len(last.writes) = 2 /\ last.writes[2][1] = "update_cell"
    /\ \E child_id_str \in IdInputs :
        \E name \in NamesOfChild(child_id_str) :
            \E i \in RowsWithName(name) :
                i = last.writes[2][2] /\ owners_sheet[i][2] = <<>>

(* C7 as stated: in link, a backend failure of a look-up made before the   *)
(* final confirmation (the child look-up, the pet look-up, the Owners      *)
(* look-up by child name of step 3, the Owners look-up by pet id of step   *)
(* 4) aborts the operation: the operator is not asked to confirm and no    *)
(* write is issued.                                                        *)
C7_LookupFailureAborts ==
    [][(last'.op = "link" /\ last'.fails \cap {"child", "pet", "link3", "pet4"} # {}) =>
        /\ last'.answers = <<>>
        /\ last'.writes = <<>>
        /\ UNCHANGED sheets]_vars

(* the Owners look-up of step 3 failed, the operator confirmed, the link   *)
(* was written                                                             *)
C7_Witness ==
    /\ last.op = "link" /\ last.outcome = "success"
    /\ "link3" \in last.fails
    /\ last.answers = <<"Y">>
    /\ Len(last.writes) > 0

(* the operator answered no to one of the questions *)
Refused(answers) == \E k \in 1..Len(answers) : answers[k] = "n"

(* C8: refusing a confirmation (in link the replace question or the final  *)
(* summary, in delete-child and delete-pet the delete question) ends the   *)
(* operation with Children, Pets and Owners as they were before it.        *)
C8_RefusalChangesNothing ==
    [][(last'.op \in {"link", "delete_child", "delete_pet"} /\ Refused(last'.answers)) =>
        /\ last'.writes = <<>>
        /\ UNCHANGED sheets]_vars

(* the operator agreed to replace a link and refused the final summary *)
C8_Witness ==
    /\ last.op = "link" /\ last.answers = <<"Y", "n">>
    /\ Len(owners_sheet) > 1

(* no row of the worksheet, header included, has the id *)
NoRowWithId(ws, id_str) == \A i \in 1..Len(ws) : ws[i][1] # id_str

(* the operation asked nothing, wrote nothing and, unless a backend call   *)
(* failed, told the operator that nothing was found                        *)
NotFoundReturn ==
    /\ last'.answers = <<>>
    /\ last'.writes = <<>>
    /\ last'.fails = {} => last'.outcome = "not_found"
    /\ UNCHANGED sheets

(* C9: delete-child, delete-pet, search-by-child and search-by-pet called  *)
(* with an id that no row of the primary table has return without asking   *)
(* for a confirmation and without a write to any of the three tables.      *)
C9_NotFoundHasNoEffect ==
    [][\A id_str \in IdInputs :
        /\ (/\ last'.op = "delete_child" /\ NoRowWithId(children_sheet, id_str)
            /\ delete_child(id_str)) => NotFoundReturn
        /\ (/\ last'.op = "delete_pet" /\ NoRowWithId(pets_sheet, id_str)
            /\ delete_pet(id_str)) => NotFoundReturn
        /\ (/\ last'.op = "search_by_child" /\ NoRowWithId(children_sheet, id_str)
            /\ search_by_child(id_str)) => NotFoundReturn
        /\ (/\ last'.op = "search_by_pet" /\ NoRowWithId(pets_sheet, id_str)
            /\ search_by_pet(id_str)) => NotFoundReturn]_vars

(* delete-child did not find the id in a Children table that has rows *)
C9_Witness ==
    /\ last.op = "delete_child" /\ last.outcome = "not_found"
    /\ Len(children_sheet) > 1 /\ Len(owners_sheet) > 1

(* the id after the largest id of the data rows, 1 for a table without any *)
NextIdOf(ws) ==
    IF Len(ws) <= 1 THEN 1
    ELSE 1 + SetMax({0} \cup {int(ws[i][1]) : i \in {j \in DataRowNumbers(ws) :
                                                        isdigit(ws[j][1])}})

(* C10: add-child (add-pet) changes storage by appending exactly one row   *)
(* [next_id, fields] at the end of Children (of Pets), or not at all: no   *)
(* existing row is modified or removed, the other two tables are not       *)
(* touched, and the id of the row is next_id of the table before.          *)
C10_AddAppendsOneRowOrNothing ==
    [][/\ last'.op = "add_child" =>
          \A first_in \in FirstNameInputs, last_in \in LastNameInputs \cup {NotTyped},
             age_in \in ChildAgeInputs \cup {NotTyped} :
            add_child(first_in, last_in, age_in) =>
                \/ UNCHANGED sheets
                \/ /\ children_sheet' =
                        Append(children_sheet,
                               <<str(NextIdOf(children_sheet)),
                                 capitalize(strip(first_in)), capitalize(strip(last_in)),
                                 str(int(strip(age_in)))>>)
                   /\ UNCHANGED <<pets_sheet, owners_sheet>>
       /\ last'.op = "add_pet" =>
          \A nick_in \in NicknameInputs, age_in \in PetAgeInputs \cup {NotTyped},
             type_in \in PetTypeInputs \cup {NotTyped} :
            add_pet(nick_in, age_in, type_in) =>
                \/ UNCHANGED sheets
                \/ /\ Len(pets_sheet') = Len(pets_sheet) + 1
                   /\ SubSeq(pets_sheet', 1, Len(pets_sheet)) = pets_sheet
                   /\ pets_sheet'[Len(pets_sheet')][1] = str(NextIdOf(pets_sheet))
                   /\ pets_sheet'[Len(pets_sheet')][2] = capitalize(strip(nick_in))
                   /\ pets_sheet'[Len(pets_sheet')][3] = str(int(strip(age_in)))
                   /\ UNCHANGED <<children_sheet, owners_sheet>>]_vars

(* a second child was appended below the first while Owners has a row *)
C10_Witness ==
    /\ last.op = "add_child" /\ last.outcome = "success"
    /\ Len(children_sheet) = 3 /\ children_sheet[3][1] = <<"2">>
    /\ Len(owners_sheet) > 1

(* C11: when the scan inside get_next_id fails, get_next_id returns the    *)
(* "unknown" sentinel and add_child / add_pet end without appending a row: *)
(* no id, 1 or any other, stands in for the one that could not be read.    *)
C11_ScanFailureAbortsAdd ==
    [][/\ get_next_id(children_sheet, FALSE) = NoId
       /\ get_next_id(pets_sheet, FALSE) = NoId
       /\ (last'.op \in {"add_child", "add_pet"} /\ "scan" \in last'.fails) =>
            /\ last'.outcome = "no_id"
            /\ last'.writes = <<>>
            /\ UNCHANGED sheets]_vars

(* the scan failed for a Children table that has a row with id 1 *)
C11_Witness ==
    /\ last.op = "add_child" /\ last.outcome = "no_id" /\ "scan" \in last.fails
    /\ Len(children_sheet) = 2 /\ children_sheet[2][1] = <<"1">>

(* the worksheet without the rows that have the id *)
WithoutId(ws, id_str) ==
    SelectSeq(ws, LAMBDA row : row[1] # id_str)

(* C12: in delete-child and delete-pet, once the primary row is deleted, a *)
(* backend failure of the Owners look-up or of the Owners write that       *)
(* follows does not restore the row: the operation ends with the primary   *)
(* row deleted and Owners as it was before, stale link included.           *)
C12_DeleteIsNotRolledBack ==
    [][\A id_str \in IdInputs :
        /\ (/\ last'.op = "delete_child" /\ last'.fails \cap {"link", "unlink"} # {}
            /\ delete_child(id_str)) =>
                /\ RowsWithId(children_sheet, id_str) # {}
                /\ children_sheet' = WithoutId(children_sheet, id_str)
                /\ owners_sheet' = owners_sheet
                /\ pets_sheet' = pets_sheet
        /\ (/\ last'.op = "delete_pet" /\ last'.fails \cap {"link", "unlink"} # {}
            /\ delete_pet(id_str)) =>
                /\ RowsWithId(pets_sheet, id_str) # {}
                /\ pets_sheet' = WithoutId(pets_sheet, id_str)
                /\ owners_sheet' = owners_sheet
                /\ children_sheet' = children_sheet]_vars

(* a pet was deleted, the Owners write failed: an Owners row still holds   *)
(* the id of a pet that Pets no longer has                                 *)
C12_Witness ==
    /\ last.op = "delete_pet" /\ last.fails = {"unlink"}
    /\ Len(pets_sheet) = 1
    /\ \E i \in DataRowNumbers(owners_sheet) : owners_sheet[i][2] = <<"1">>

(* C13: when link has cleared pet P from its previous owner's row (step 7) *)
(* and the write that records P for the new child (step 8) fails, the      *)
(* operation ends with an error, the clear is not undone and P is in no    *)
(* Owners row.                                                             *)
C13_LinkIsNotTransactional ==
    [][(/\ last'.op = "link" /\ "write" \in last'.fails
        /\ Len(last'.writes) = 2) =>
            LET prev == last'.writes[1][2]
                pet_id_str == owners_sheet[prev][2]
            IN  /\ last'.outcome = "error"
                /\ pet_id_str # <<>>
                /\ owners_sheet' = [owners_sheet EXCEPT ![prev] = <<@[1], <<>> >>]
                /\ \A i \in DataRowNumbers(owners_sheet') :
                       owners_sheet'[i][2] # pet_id_str
                /\ UNCHANGED <<children_sheet, pets_sheet>>]_vars

(* the pet is in Pets, a child's row was cleared, no Owners row holds it *)
C13_Witness ==
    /\ last.op = "link" /\ last.outcome = "error" /\ "write" \in last.fails
    /\ Len(last.writes) = 2
    /\ Len(pets_sheet) = 2
    /\ \A i \in DataRowNumbers(owners_sheet) : owners_sheet[i][2] = <<>>

(***************************************************************************)
(* The helpers (HelpersSpec)                                               *)
(***************************************************************************)
(* the values of the first-column cells of the data rows that parse as integers *)
ParseableIds(ws) ==
    {int(ws[i][1]) : i \in {j \in DataRowNumbers(ws) :
                              isdigit(ws[j][1]) /\ ~int_raises(ws[j][1])}}

(* a data row whose id cell str.isdigit() accepts and int() rejects *)
HasDigitLikeId(ws) ==
    \E j \in DataRowNumbers(ws) : isdigit(ws[j][1]) /\ int_raises(ws[j][1])

(* C14, as stated: when the scan answers, get_next_id returns 1 + the      *)
(* maximum of the first-column values of the data rows that parse as       *)
(* integers, and 1 when there is none; every other row is ignored.         *)
C14_NextIdIgnoresUnparseableRows ==
    (last.op = "get_next_id" /\ last.ok) =>
        last.result = 1 + SetMax({0} \cup ParseableIds(children_sheet))

(* C14, what holds: the same, on a worksheet where every id cell that      *)
(* str.isdigit() accepts is a string of decimal digits.                    *)
C14_NextIdOnDecimalIds ==
    (last.op = "get_next_id" /\ last.ok /\ ~HasDigitLikeId(children_sheet)) =>
        last.result = 1 + SetMax({0} \cup ParseableIds(children_sheet))

C14_DecimalIdsWitness ==
    /\ last.op = "get_next_id" /\ last.ok
    /\ Len(children_sheet) = 3
    /\ children_sheet[2][1] = <<"x">> /\ children_sheet[3][1] = <<"3">>
    /\ last.result = 4

(* the scan answers, one id cell is "sup2", another is "3", and            *)
(* get_next_id returns the sentinel                                        *)
C14_Witness ==
    /\ last.op = "get_next_id" /\ last.ok
    /\ Len(children_sheet) = 3
    /\ children_sheet[2][1] = <<"3">> /\ children_sheet[3][1] = <<"sup2">>
    /\ last.result = NoId

(* the numbers of the rows, header included, whose cell in column col is value *)
RowsWithCell(ws, col, value) ==
    {i \in 1..Len(ws) : Len(ws[i]) >= col /\ ws[i][col] = value}

LowestOf(rows) == CHOOSE i \in rows : \A j \in rows : i <= j

(* the three outcomes of a locator that looked for value in column col;   *)
(* accepted: the locator did not reject value before the scan              *)
LocatorContract(result, ws, col, value, ok, accepted) ==
    LET rows == RowsWithCell(ws, col, value)
    IN  /\ result = ErrorResult <=> ~ok
        /\ result = NoResult <=> (ok /\ (~accepted \/ rows = {}))
        /\ (ok /\ accepted /\ rows # {}) =>
              result = [row |-> ws[LowestOf(rows)], index |-> LowestOf(rows)]
        /\ result \notin {ErrorResult, NoResult} =>
              result.row # None /\ result.index >= 1

DecimalString(text) == Len(text) > 0 /\ \A i \in 1..Len(text) : text[i] \in Digits

(* what the contract gives for validate_range(text, min_val, max_val) *)
InRange(text, min_val, max_val) ==
    IF DecimalString(text) THEN min_val <= int(text) /\ int(text) <= max_val ELSE FALSE

(* C19, as stated: validate_range(text, min, max) returns true exactly     *)
(* when text is a non-empty string of decimal digits with min <= v <= max, *)
(* and false otherwise, in particular for every string with a character    *)
(* that is not a decimal digit.                                            *)
C19_ValidateRangeAsStated ==
    last.op = "validate_range" =>
        last.result = (IF InRange(last.args[1], last.args[2], last.args[3])
                       THEN "True" ELSE "False")

(* C19, what holds: the same for every text on which int() does not raise *)
C19_ValidateRangeWhereItReturns ==
    (last.op = "validate_range" /\ ~validate_range_raises(last.args[1])) =>
        last.result = (IF InRange(last.args[1], last.args[2], last.args[3])
                       THEN "True" ELSE "False")

C19_ReturnsWitness ==
    /\ last.op = "validate_range"
    /\ last.args = << <<"0", "1", "0">>, 5, 18 >>
    /\ last.result = "True"

(* validate_range("sup2", 5, 18) raises ValueError *)
C19_Witness ==
    /\ last.op = "validate_range"
    /\ last.args = << <<"sup2">>, 5, 18 >>
    /\ last.result = "ValueError"

PetCellOf(name) ==
    IF RowsWithName(name) = {} THEN <<>>
    ELSE owners_sheet[LowestOf(RowsWithName(name))][2]

(* the full names the Children table holds *)
NamesOfChildren ==
    {full_name(children_sheet[c][2], children_sheet[c][3]) :
        c \in DataRowNumbers(children_sheet)}

(* what search_by_child is to report for an existing child *)
ChildSearchOutcome(child_id_str) ==
    LET first == children_sheet[LowestOf(RowsWithId(children_sheet, child_id_str))]
        cell == PetCellOf(full_name(first[2], first[3]))
    IN  IF cell = <<>> THEN "not_linked"
        ELSE IF RowsWithId(pets_sheet, cell) # {} THEN "found"
        ELSE "inconsistent"

(* search_by_pet is to warn of an inconsistency for an existing pet *)
PetSearchInconsistent(pet_id_str) ==
    LET rows == {i \in DataRowNumbers(owners_sheet) : owners_sheet[i][2] = pet_id_str}
    IN  rows # {} /\ owners_sheet[LowestOf(rows)][1] \notin NamesOfChildren

(* C16: when no backend call fails, search_by_child for an existing child  *)
(* reports "not linked" exactly when Owners has no row of the child's full *)
(* name or the pet cell of the row is empty, the pet exactly when the pet  *)
(* cell holds the id of a Pets row, and the inconsistency warning exactly  *)
(* when the pet cell is not empty and no Pets row has the id; search_by_pet*)
(* for an existing pet reports the inconsistency warning exactly when an   *)
(* Owners row holds the pet's id and no Children row has its full name.    *)
C16_SearchOutcomes ==
    [][\A id_str \in IdInputs :
        /\ (/\ last'.op = "search_by_child" /\ last'.fails = {}
            /\ RowsWithId(children_sheet, id_str) # {}
            /\ search_by_child(id_str)) =>
                last'.outcome = ChildSearchOutcome(id_str)
        /\ (/\ last'.op = "search_by_pet" /\ last'.fails = {}
            /\ RowsWithId(pets_sheet, id_str) # {}
            /\ search_by_pet(id_str)) =>
                /\ last'.outcome \in {"not_linked", "found", "inconsistent"}
                /\ last'.outcome = "inconsistent" <=> PetSearchInconsistent(id_str)]_vars

(* search_by_child warned of an inconsistency: the child's Owners row      *)
(* holds the id of a pet that Pets no longer has                           *)
C16_Witness ==
    /\ last.op = "search_by_child" /\ last.outcome = "inconsistent"
    /\ \E c \in DataRowNumbers(children_sheet) :
          LET cell == PetCellOf(full_name(children_sheet[c][2], children_sheet[c][3]))
          IN  cell # <<>> /\ RowsWithId(pets_sheet, cell) = {}

(***************************************************************************)
(* The scenario of one child, one pet (Spec)                               *)
(***************************************************************************)
Ann == <<"A", "n", "n">>

Lee == <<"L", "e", "e">>

Rex == <<"R", "e", "x">>

AnnLee == <<"A", "n", "n", " ", "L", "e", "e">>

ChildrenWithAnn == <<ChildrenHeader, << <<"1">>, Ann, Lee, <<"1", "0">> >> >>

PetsWithRex == <<PetsHeader, << <<"1">>, Rex, <<"3">>, <<"p", "u", "p", "p", "y">> >> >>

OwnersLinked == <<OwnersHeader, <<AnnLee, <<"1">> >> >>

OwnersUnlinked == <<OwnersHeader, <<AnnLee, <<>> >> >>

(* the operation that ran: no backend call failed, no question refused *)
Smooth(report) ==
    report.fails = {} /\ \A i \in 1..Len(report.answers) : report.answers[i] # "n"

(* C17: from empty tables, with every call answered and every question     *)
(* confirmed: add_child("Ann", "Lee", "10") appends child 1; then          *)
(* add_pet("Rex", "3", "p") appends pet 1, a puppy; then link(1, 1) makes  *)
(* Owners gain the row ["Ann Lee", 1]; then search_by_child(1) reports pet *)
(* 1, Rex; then delete_pet(1) leaves Pets empty and the Owners row         *)
(* ["Ann Lee", ""]; then search_by_child(1) reports "not linked".          *)
C17_Scenario ==
    [][/\ (/\ last'.op = "add_child" /\ Smooth(last')
           /\ sheets = << <<ChildrenHeader>>, <<PetsHeader>>, <<OwnersHeader>> >>
           /\ add_child(Ann, Lee, <<"1", "0">>)) =>
               /\ last'.outcome = "success"
               /\ sheets' = <<ChildrenWithAnn, <<PetsHeader>>, <<OwnersHeader>> >>
       /\ (/\ last'.op = "add_pet" /\ Smooth(last')
           /\ sheets = <<ChildrenWithAnn, <<PetsHeader>>, <<OwnersHeader>> >>
           /\ add_pet(Rex, <<"3">>, <<"p">>)) =>
               /\ last'.outcome = "success"
               /\ sheets' = <<ChildrenWithAnn, PetsWithRex, <<OwnersHeader>> >>
       /\ (/\ last'.op = "link" /\ Smooth(last')
           /\ sheets = <<ChildrenWithAnn, PetsWithRex, <<OwnersHeader>> >>
           /\ link_child_pet(<<"1">>, <<"1">>)) =>
               /\ last'.outcome = "success"
               /\ sheets' = <<ChildrenWithAnn, PetsWithRex, OwnersLinked>>
       /\ (/\ last'.op = "search_by_child" /\ Smooth(last')
           /\ sheets = <<ChildrenWithAnn, PetsWithRex, OwnersLinked>>
           /\ search_by_child(<<"1">>)) =>
               /\ last'.outcome = "found"
               /\ search_by_child_result(<<"1">>, {}).shown = <<"1">>
               /\ UNCHANGED sheets
       /\ (/\ last'.op = "delete_pet" /\ Smooth(last')
           /\ sheets = <<ChildrenWithAnn, PetsWithRex, OwnersLinked>>
           /\ delete_pet(<<"1">>)) =>
               /\ last'.outcome = "success"
               /\ sheets' = <<ChildrenWithAnn, <<PetsHeader>>, OwnersUnlinked>>
       /\ (/\ last'.op = "search_by_child" /\ Smooth(last')
           /\ sheets = <<ChildrenWithAnn, <<PetsHeader>>, OwnersUnlinked>>
           /\ search_by_child(<<"1">>)) =>
               /\ last'.outcome = "not_linked"
               /\ UNCHANGED sheets]_vars

(* the end of the scenario *)
C17_Witness ==
    /\ last.op = "search_by_child" /\ last.outcome = "not_linked" /\ Smooth(last)
    /\ sheets = <<ChildrenWithAnn, <<PetsHeader>>, OwnersUnlinked>>

(***************************************************************************)
(* The dialogue (DialogueSpec)                                             *)
(***************************************************************************)
(* C18, as stated: when the backend answers every call and the operator    *)
(* gives, in the end, an answer that the prompt takes whenever there is    *)
(* one, every operation chosen at the menu ends, whatever the tables hold. *)
C18_EveryOperationEnds == (~AtMenu) ~> AtMenu

(* some answer ends the loop of link_child_pet that asks for the id *)
LinkCanBeAnswered ==
    /\ \E id_str \in IdInputs : find_row_by_id(children_sheet, id_str, TRUE).row # None
    /\ \E id_str \in IdInputs : find_row_by_id(pets_sheet, id_str, TRUE).row # None

(* C18, what holds: the same for the six other operations, and for link    *)
(* when Children and Pets each hold a row.                                 *)
C18_OperationEndsWhenAnswerable ==
    (~AtMenu /\ (last.op = "link" => LinkCanBeAnswered)) ~> AtMenu

(* link asks for the child id again, and the Children table has no row *)
C18_Witness ==
    /\ At("link", "child_id") /\ last.repeated
    /\ Len(children_sheet) = 1

(***************************************************************************)
(* Link, the searches and the deletes (Spec), continued                    *)
(***************************************************************************)
(* C21: a link in which the Owners look-up by child name of step 6 or the  *)
(* Owners look-up by pet id of step 7 fails ends with an error before any  *)
(* write: no write is sent and the three tables are as before.             *)
C21_FailedRelookupWritesNothing ==
    [][(last'.op = "link" /\ last'.fails \cap {"link6", "pet7"} # {}) =>
           /\ last'.outcome = "error"
           /\ last'.writes = <<>>
           /\ UNCHANGED sheets]_vars

(* the look-up of step 7 failed, for a pet that another child's row held,  *)
(* after the operator confirmed                                            *)
C21_Witness ==
    /\ last.op = "link" /\ "pet7" \in last.fails /\ last.outcome = "error"
    /\ last.answers # <<>> /\ last.answers[Len(last.answers)] = "Y"
    /\ \E i \in DataRowNumbers(owners_sheet) : owners_sheet[i][2] # <<>>

(* p is the position of the first row of the table with the key in column col *)
FirstWithKey(ws, col, key, p) ==
    /\ p \in 1..Len(ws)
    /\ ws[p][col] = key
    /\ \A q \in 1..(p - 1) : ws[q][col] # key

(* the full name of the child with the id *)
NameOfChild(child_id_str) ==
    LET row == children_sheet[LowestOf(RowsWithId(children_sheet, child_id_str))]
    IN  full_name(row[2], row[3])

(* the positional writes of a link: the clear of the previous owner's row, *)
(* when there is one, is at the first Owners row that holds the pet, and   *)
(* the update is at the first Owners row of the child's name               *)
LinkWritesInPlace(child_id_str, pet_id_str, report) ==
    LET clears == Len(report.writes) = 2 \/ "clear" \in report.fails
    IN  \A i \in 1..Len(report.writes) :
            report.writes[i][1] = "update_cell" =>
                IF clears /\ i = 1
                THEN FirstWithKey(owners_sheet, 2, pet_id_str, report.writes[i][2])
                ELSE FirstWithKey(owners_sheet, 1, NameOfChild(child_id_str),
                                  report.writes[i][2])

(* C22: every update_cell and delete_rows an operation sends is at the     *)
(* position that the row with the operation's key has when the write is    *)
(* sent: the row the locator returned, with no delete on the table between *)
(* the look-up and the write.                                              *)
C22_NoStaleWrite ==
    [][\A id_str \in IdInputs :
        /\ (last'.op = "link" /\ last'.writes # <<>>) =>
              LinkWritesInPlace(last'.linked[1], last'.linked[2], last')
        /\ (/\ last'.op = "delete_child" /\ last'.writes # <<>>
            /\ RowsWithId(children_sheet, id_str) # {}
            /\ delete_child(id_str)) =>
              /\ FirstWithKey(children_sheet, 1, id_str, last'.writes[1][2])
              /\ Len(last'.writes) = 2 =>
                    FirstWithKey(owners_sheet, 1, NameOfChild(id_str), last'.writes[2][2])
        /\ (/\ last'.op = "delete_pet" /\ last'.writes # <<>>
            /\ RowsWithId(pets_sheet, id_str) # {}
            /\ delete_pet(id_str)) =>
              /\ FirstWithKey(pets_sheet, 1, id_str, last'.writes[1][2])
              /\ Len(last'.writes) = 2 =>
                    FirstWithKey(owners_sheet, 2, id_str, last'.writes[2][2])]_vars

(* a delete_child that deleted the second Children row and then the        *)
(* second data row of Owners                                               *)
C22_Witness ==
    /\ last.op = "delete_child" /\ last.outcome = "success"
    /\ last.writes = << <<"delete_rows", 3>>, <<"delete_rows", 3>> >>

(* the Owners cells that a link of the pet to the child of the name may    *)
(* change: the pet cell of the name's row, to the pet id, and the pet cell *)
(* of another row that held the pet id, to empty                           *)
LinkChangesRow(before, after, name, pet_id_str) ==
    /\ after[1] = before[1]
    /\ after[2] # before[2] =>
          \/ before[1] = name /\ after[2] = pet_id_str
          \/ before[1] # name /\ before[2] = pet_id_str /\ after[2] = <<>>

(* C23: a successful link leaves Children and Pets as they were and        *)
(* removes no Owners row; Owners gains exactly one row, [name, pet id],    *)
(* when the child's name had none, and keeps its length otherwise; the     *)
(* only cells that change are the pet cell of the child's row, which       *)
(* becomes the pet id, and the pet cell of at most one other row, which    *)
(* held the pet id and becomes empty.                                      *)
C23_LinkFrame ==
    [][(last'.op = "link" /\ last'.outcome = "success") =>
        LET name == NameOfChild(last'.linked[1])
            pet_id_str == last'.linked[2]
            had == RowsWithCell(owners_sheet, 1, name) # {}
            others == {i \in 1..Len(owners_sheet) :
                          owners_sheet[i][1] # name /\ owners_sheet'[i] # owners_sheet[i]}
        IN  /\ UNCHANGED <<children_sheet, pets_sheet>>
            /\ Len(owners_sheet') = Len(owners_sheet) + (IF had THEN 0 ELSE 1)
            /\ \A i \in 1..Len(owners_sheet) :
                  LinkChangesRow(owners_sheet[i], owners_sheet'[i], name, pet_id_str)
            /\ Cardinality(others) <= 1
            /\ ~had => owners_sheet'[Len(owners_sheet')] = <<name, pet_id_str>>
            /\ had => owners_sheet'[LowestOf(RowsWithCell(owners_sheet, 1, name))][2]
                          = pet_id_str]_vars

(* a successful link that took the pet from another child's row and        *)
(* appended a row for the child                                            *)
C23_Witness ==
    /\ last.op = "link" /\ last.outcome = "success"
    /\ last.writes = << <<"update_cell", 2>>, <<"append_row", 3>> >>
    /\ owners_sheet[2][2] = <<>> /\ owners_sheet[3][2] = last.linked[2]

SearchOutcomes == {"found", "not_found", "not_linked", "inconsistent", "error"}

(* C24: search_by_child and search_by_pet write nothing: whatever the id   *)
(* typed and whatever the outcome (found, not found, not linked,           *)
(* inconsistency warning, backend error), the three tables are after the   *)
(* search what they were before it.                                        *)
C24_SearchesReadOnly ==
    [][last'.op \in {"search_by_child", "search_by_pet"} =>
           /\ last'.outcome \in SearchOutcomes
           /\ last'.writes = <<>>
           /\ UNCHANGED sheets]_vars

(* a search that warned of an inconsistency, over tables that hold rows *)
C24_Witness ==
    /\ last.op = "search_by_pet" /\ last.outcome = "inconsistent"
    /\ Len(owners_sheet) > 1 /\ Len(pets_sheet) > 1

(***************************************************************************)
(* Two children of one full name (TwinsSpec)                               *)
(***************************************************************************)
(* two Children rows with different ids and the same full name *)
Twins(a, b) ==
    /\ a # b
    /\ RowsWithId(children_sheet, a) # {} /\ RowsWithId(children_sheet, b) # {}
    /\ NameOfChild(a) = NameOfChild(b)

(* search_by_child answers the same for both *)
TwinsSearchAlike ==
    \A i, j \in DataRowNumbers(children_sheet) :
        (/\ i < j
         /\ children_sheet[i][1] # children_sheet[j][1]
         /\ full_name(children_sheet[i][2], children_sheet[i][3])
               = full_name(children_sheet[j][2], children_sheet[j][3])) =>
            search_by_child_result(children_sheet[i][1], {})
                = search_by_child_result(children_sheet[j][1], {})

(* C25: two Children rows of one full name share one Owners row: at the    *)
(* start and after every operation search_by_child reports the same for    *)
(* both; after a successful link of either to a pet, Owners has a single   *)
(* row of the name and search_by_child reports that pet for both; and      *)
(* after a successful delete_child of either, Owners has no row of the     *)
(* name and search_by_child of the one that remains reports "not linked".  *)
C25_TwinsShareOneRow ==
    [][/\ last.op = "start" => TwinsSearchAlike
       /\ TwinsSearchAlike'
       /\ last'.op \in {"link", "delete_child"} => \A a, b \in IdInputs :
           /\ (/\ last'.op = "link" /\ last'.outcome = "success"
               /\ last'.linked[1] = a /\ Twins(a, b)) =>
                 /\ Cardinality(RowsWithCell(owners_sheet', 1, NameOfChild(a))) = 1
                 /\ search_by_child_result(a, {})'
                       = Result("found", last'.linked[2], {})
                 /\ search_by_child_result(b, {})'
                       = Result("found", last'.linked[2], {})
           /\ (/\ last'.op = "delete_child" /\ last'.outcome = "success"
               /\ last'.fails = {} /\ Twins(a, b)
               /\ delete_child(a)) =>
                 /\ RowsWithCell(owners_sheet', 1, NameOfChild(b)) = {}
                 /\ search_by_child_result(b, {})'
                       = Result("not_linked", <<>>, {})]_vars

(* child 2 was linked to pet 2 after the operator agreed to replace the    *)
(* link of the name, and the one Owners row of the name holds pet 2        *)
C25_Witness ==
    /\ last.op = "link" /\ last.outcome = "success"
    /\ last.linked = << <<"2">>, <<"2">> >>
    /\ Len(last.answers) = 2
    /\ Twins(<<"1">>, <<"2">>)
    /\ owners_sheet = <<OwnersHeader, <<NameOfChild(<<"1">>), <<"2">> >> >>

(***************************************************************************)
(* A backend that answers every call (DialogueSpec), continued             *)
(***************************************************************************)
(* C26: from empty tables, in every state reached through operations in    *)
(* which every backend call is answered, each Owners row has the full name *)
(* of a Children row and each Owners pet cell that is not empty has the id *)
(* of a Pets row.                                                          *)
C26_NoStaleLink ==
    \A i \in DataRowNumbers(owners_sheet) :
        /\ owners_sheet[i][1] \in NamesOfChildren
        /\ owners_sheet[i][2] # <<>> => RowsWithId(pets_sheet, owners_sheet[i][2]) # {}

(* a child was deleted and the link of another child is still there *)
C26_Witness ==
    /\ last.op = "delete_child" /\ last.outcome = "success"
    /\ Len(last.writes) = 2
    /\ \E i \in DataRowNumbers(owners_sheet) : owners_sheet[i][2] # <<>>

(***************************************************************************)
(* C27.  As stated: an id a table assigns was never assigned by that table *)
(* before, the ids of rows deleted since included.                         *)
(***************************************************************************)
C27_IdsNeverReused ==
    [][/\ last'.op = "add_child" => last'.id \notin last.children
       /\ last'.op = "add_pet" => last'.id \notin last.pets]_vars

(* the ids of the data rows of a table *)
IdsIn(ws) == {int(ws[i][1]) : i \in DataRowNumbers(ws)}

(* C27, as the code has it: the id a table assigns is one more than every  *)
(* id the table holds at that moment (1 for a table without rows), so it   *)
(* is the id of no present row; it is an id assigned before exactly when   *)
(* every row from that id upward has been deleted since.                   *)
C27_IdsUnusedAmongPresentRows ==
    [][/\ last'.op = "add_child" =>
            /\ last'.id = SetMax({0} \cup IdsIn(children_sheet)) + 1
            /\ last'.id \notin IdsIn(children_sheet)
            /\ last'.id \in last.children <=>
                   \E id \in last.children : id >= last'.id
       /\ last'.op = "add_pet" =>
            /\ last'.id = SetMax({0} \cup IdsIn(pets_sheet)) + 1
            /\ last'.id \notin IdsIn(pets_sheet)
            /\ last'.id \in last.pets <=> \E id \in last.pets : id >= last'.id]_vars

(* a child was added with id 2 while Children holds child 1 and the table  *)
(* had assigned id 2 before: the row that had it was deleted               *)
C27_Witness ==
    /\ last.op = "add_child"
    /\ last.id = 2
    /\ Len(children_sheet) = 3
    /\ children_sheet[2][1] = <<"1">>
    /\ children_sheet[3][1] = <<"2">>
    /\ last.children = {1, 2}
    /\ last.pets = {1}
    /\ Len(pets_sheet) = 1

(***************************************************************************)
(* A newly added record (Spec)                                             *)
(***************************************************************************)
(* the step is a successful add_child, or add_pet *)
Added(op) == last'.op = op /\ last'.outcome = "success"

(* the row append_row put at the bottom of the table *)
NewRow(ws) == ws[Len(ws)]

(* the Owners rows that hold the pet id *)
OwnersRowsOfPet(pet_id_str) ==
    {i \in DataRowNumbers(owners_sheet) : owners_sheet[i][2] = pet_id_str}

(* the Owners rows of the full name whose pet cell is not empty *)
LinkedRowsOfName(name) == {i \in RowsWithName(name) : owners_sheet[i][2] # <<>>}

(* C28.  As stated: in the state after a successful add_pet no Owners row  *)
(* holds the new pet's id, and in the state after a successful add_child   *)
(* Owners has no row with a non-empty pet cell for the new child's full    *)
(* name, whatever happened before.                                         *)
C28_NewRecordStartsUnlinked ==
    [][/\ Added("add_pet") => OwnersRowsOfPet(NewRow(pets_sheet)[1])' = {}
       /\ Added("add_child") =>
            LinkedRowsOfName(full_name(NewRow(children_sheet)[2],
                                       NewRow(children_sheet)[3]))' = {}]_vars

(* Owners has no stale row: the condition of C26 *)
NoStaleLink ==
    \A i \in DataRowNumbers(owners_sheet) :
        /\ owners_sheet[i][1] \in NamesOfChildren
        /\ owners_sheet[i][2] # <<>> => RowsWithId(pets_sheet, owners_sheet[i][2]) # {}

(* C28, as the code has it: an add writes its own table only, so the new   *)
(* record is linked exactly when Owners already held a row for its id or   *)
(* its full name.  From tables without a stale row a new pet starts        *)
(* unlinked, and a new child starts unlinked unless a child of the same    *)
(* full name is linked.                                                    *)
C28_NewRecordLinkedOnlyByOldRows ==
    [][/\ Added("add_pet") =>
            /\ UNCHANGED <<children_sheet, owners_sheet>>
            /\ NoStaleLink => OwnersRowsOfPet(NewRow(pets_sheet)[1])' = {}
       /\ Added("add_child") =>
            LET name == full_name(NewRow(children_sheet)[2], NewRow(children_sheet)[3])
            IN  /\ UNCHANGED <<pets_sheet, owners_sheet>>
                /\ (NoStaleLink /\ name' \notin NamesOfChildren) =>
                       LinkedRowsOfName(name)' = {}]_vars

(* a pet was added with the id an Owners row already held: the row was     *)
(* left by the delete of an earlier pet whose unlink failed                *)
C28_Witness ==
    /\ last.op = "add_pet" /\ last.outcome = "success"
    /\ Len(pets_sheet) = 2
    /\ OwnersRowsOfPet(pets_sheet[2][1]) # {}

(***************************************************************************)
(* Link, then search (Spec)                                                *)
(***************************************************************************)
(* the step is a successful link of child c to pet p *)
Linked(c, p) ==
    last'.op = "link" /\ last'.outcome = "success" /\ last'.linked = <<c, p>>

(* C29.  As stated: immediately after a successful link of child c to pet  *)
(* p, search-by-child(c) reports pet p and search-by-pet(p) reports the    *)
(* child with id c, not another Children row (searches in which no backend *)
(* call fails).                                                            *)
C29_RoundTripAsStated ==
    [][(last'.op = "link" /\ last'.outcome = "success") =>
        \A c, p \in IdInputs : Linked(c, p) =>
            /\ search_by_child_result(c, {})' = Result("found", p, {})
            /\ search_by_pet_result(p, {})' = Result("found", c, {})]_vars

(* the Children rows that have the full name of child c *)
ChildrenNamedAs(c) ==
    {i \in DataRowNumbers(children_sheet) :
        full_name(children_sheet[i][2], children_sheet[i][3]) \in NamesOfChild(c)}

(* C29, as the code has it: search-by-child(c) reports pet p, and          *)
(* search-by-pet(p) reports the first Children row that has c's full name: *)
(* child c when no row above it has the same full name.                    *)
C29_RoundTrip ==
    [][(last'.op = "link" /\ last'.outcome = "success") =>
        \A c, p \in IdInputs : Linked(c, p) =>
            LET first == LowestOf(ChildrenNamedAs(c))
                by_pet == search_by_pet_result(p, {})'
            IN  /\ search_by_child_result(c, {})' = Result("found", p, {})
                /\ by_pet = Result("found", children_sheet[first][1], {})
                /\ first \in RowsWithId(children_sheet, c)
                       <=> by_pet = Result("found", c, {})]_vars

(* child 2 was linked to pet 1 and child 1 has the same full name: the     *)
(* search by the pet reports child 1                                       *)
C29_Witness ==
    /\ last.op = "link" /\ last.outcome = "success"
    /\ last.linked = << <<"2">>, <<"1">> >>
    /\ search_by_child_result(<<"2">>, {}) = Result("found", <<"1">>, {})
    /\ search_by_pet_result(<<"1">>, {}) = Result("found", <<"1">>, {})

====
